---- MODULE Spec2Model ----
(***************************************************************************)
(* A model of youterm's playback core: the SmartQueue (smart_queue.py) and *)
(* the BackgroundDiscovery scheduler (auto_discovery.py), with the         *)
(* playback thread (cli.py) as the consumer and the discovery worker as a  *)
(* second thread.                                                          *)
(*                                                                         *)
(* Scores are integers in thousandths (0.5 is 500).  Python's 0-based      *)
(* current_index is kept 0-based: main_queue[current_index] in Python is   *)
(* main_queue[current_index + 1] here.  An optional track (a return value  *)
(* that may be None) is a sequence of length 0 or 1.                       *)
(***************************************************************************)
EXTENDS Integers, Sequences, FiniteSets, TLC

VARIABLES
    \* SmartQueue (smart_queue.py:189-199, 310)
    priority_queue,             \* deque of tracks
    main_queue,                 \* list of tracks
    current_index,              \* cursor of sequential mode
    played_tracks,              \* set of ids
    shuffle_mode,               \* "smart" | "random" | "sequential" | "mood"
    last_played_track,          \* <<>> until _get_next_smart sets it
    history,                    \* ListeningHistory.history
    \* BackgroundDiscovery (auto_discovery.py:22-44)
    is_running,
    discovery_thread,           \* index of the thread start() created last, 0: None
    threads,                    \* the worker threads start() has created
    discovery_queue,            \* queue.Queue(maxsize=3) of trigger reasons
    seed_tracks,                \* deque(maxlen=5)
    discovered_artists,
    artist_exploration_depth,
    elapsed,                    \* time.time() - last_discovery_time, saturated
    min_discovery_interval,
    target_queue_size,
    discovery_batch_size,
    \* the playback thread
    consumer_pc,                \* "idle", or blocked in "put" / "join"
    last_call,                  \* the last step: a call of the playback thread and
                                \* what it returned, a worker step or a clock tick
    \* history variables the properties are stated with
    returned,                   \* ids get_next_track returned this session
    pulled,                     \* results of the current run of sequential pulls
    since_put                   \* time since a trigger was last placed, saturated

qvars == <<priority_queue, main_queue, current_index, played_tracks,
           shuffle_mode, last_played_track, history>>
dvars == <<is_running, discovery_thread, threads, discovery_queue, seed_tracks,
           discovered_artists, artist_exploration_depth, elapsed,
           min_discovery_interval, target_queue_size, discovery_batch_size>>
cvars == <<consumer_pc, last_call, returned, pulled, since_put>>
vars  == <<qvars, dvars, cvars>>

----------------------------------------------------------------------------
(* Bounds of the model *)

MaxMain == 3        \* longest main tier the consumer's insertions build
MaxPrio == 2        \* longest priority tier
MaxThreads == 2     \* worker threads alive at once
MaxInsert == 2      \* the playback thread inserts into a tier shorter than this
MaxCount == 3       \* plays, and skips, recorded for one track
MaxExtra == 4       \* entries of the depth map beyond the pruning ceiling
MaxModulus == 4     \* depths of the large depth maps are below this
MaxDepth == 4       \* deepest exploration depth of a drawn context

(* Program constants *)

TriggerChannelSize == 3     \* queue_module.Queue(maxsize=3)
SeedWindow == 5             \* deque(maxlen=5)
LowWaterMark == 5           \* queue_info['total_tracks'] < 5
MaxInterval == 15           \* the largest min_discovery_interval
PenaltySameArtist == 200    \* score -= 0.2
NeutralPreference == 500    \* preference_score default 0.5
MinShuffleLen == 3          \* _smart_shuffle returns when len < 3
QualityFloor == 400         \* quality_score < 0.4 is rejected
CriticalMark == 3           \* _check_queue_health: total_tracks < 3
PruneCeiling == 50          \* len(self.artist_exploration_depth) > 50
PruneKeep == 20             \* sorted_artists[:20]
PlayBonus == 10             \* current_score + 0.01
SkipPenalty == 20           \* current_score - 0.02
SkipThreshold == 300        \* preferences["skip_threshold"] = 0.3

----------------------------------------------------------------------------
(* Tracks.  A track dict is a record; id "" is a track without an id       *)
(* (track.get("id") is falsy), artist "" a track without artist metadata.  *)

Track(i, a, q, d) ==
    [id |-> i, artist |-> a, quality_score |-> q, duration |-> d,
     auto_discovered |-> FALSE]

TA == Track("a", "X", 800, 200)
TB == Track("b", "X", 600, 200)
TC == Track("c", "Y", 500, 30)
TN == Track("n", "", 500, 0)
TZ == Track("", "", 300, 0)
TM == Track("m", "", 600, 200)
TW == Track("w", "", 0, 0)

Ids == {"a", "b", "c", "n", "m", "d", "e"}
Modes == {"smart", "random", "sequential", "mood"}

\* an optional value
None == <<>>
Some(t) == <<t>>

Range(s) == {s[i] : i \in 1..Len(s)}
TrackIds(s) == {s[i].id : i \in 1..Len(s)} \ {""}

RECURSIVE SumOver(_, _)
SumOver(f, S) ==
    IF S = {} THEN 0
    ELSE LET x == CHOOSE y \in S : TRUE IN f[x] + SumOver(f, S \ {x})

Max(a, b) == IF a >= b THEN a ELSE b
Min(a, b) == IF a <= b THEN a ELSE b

----------------------------------------------------------------------------
(* ListeningHistory *)

get_artist_preference(artist) ==
    IF artist = "" THEN NeutralPreference
    ELSE IF artist \in DOMAIN history.artists
         THEN history.artists[artist].preference_score
         ELSE NeutralPreference

get_track_score(track) ==
    LET base0 == track.quality_score
        base1 == IF track.artist # ""
                 THEN (base0 + get_artist_preference(track.artist)) \div 2
                 ELSE base0
        d     == track.duration
        base2 == IF 120 <= d /\ d <= 360 THEN base1 + 100
                 ELSE IF d < 60 \/ d > 720 THEN base1 - 200
                 ELSE base1
        base3 == IF track.id # "" /\ track.id \in DOMAIN history.tracks
                 THEN IF history.tracks[track.id].hours_since < 2 THEN base2 - 300
                      ELSE IF history.tracks[track.id].hours_since < 24 THEN base2 - 100
                      ELSE base2
                 ELSE base2
    IN  Max(0, Min(1000, base3))

\* h with key k set to v
Put(f, k, v) == [x \in DOMAIN f \cup {k} |-> IF x = k THEN v ELSE f[x]]

\* the artist's preference_score in the history h, 0.5 without an entry
PreferenceIn(h, artist) ==
    IF artist # "" /\ artist \in DOMAIN h.artists
    THEN h.artists[artist].preference_score
    ELSE NeutralPreference

PlayCountIn(h, track_id) ==
    IF track_id \in DOMAIN h.tracks THEN h.tracks[track_id].play_count ELSE 0

SkipCountIn(h, track_id) ==
    IF track_id \in DOMAIN h.tracks THEN h.tracks[track_id].skip_count ELSE 0

\* the history record_play(track) leaves behind, starting from h
record_play_in(h, track) ==
    IF track.id = "" THEN h
    ELSE LET old == IF track.id \in DOMAIN h.tracks THEN h.tracks[track.id]
                    ELSE [play_count |-> 0, skip_count |-> 0, hours_since |-> 0]
             td  == [old EXCEPT !.play_count = @ + 1, !.hours_since = 0]
             ad  == IF track.artist \in DOMAIN h.artists THEN h.artists[track.artist]
                    ELSE [play_count |-> 0, preference_score |-> NeutralPreference]
         IN  [tracks  |-> Put(h.tracks, track.id, td),
              artists |-> IF track.artist # ""
                          THEN Put(h.artists, track.artist,
                                   [play_count |-> ad.play_count + 1,
                                    preference_score |->
                                        Min(1000, ad.preference_score + PlayBonus)])
                          ELSE h.artists]

\* time_played / track_duration < skip_threshold, the ratio being 0 for a
\* duration of 0
SkippedEarly(track, time_played) ==
    IF track.duration > 0
    THEN time_played * 1000 < SkipThreshold * track.duration
    ELSE TRUE

\* the history record_skip(track, time_played) leaves behind, starting
\* from h: only a track with an entry is counted, and only then is the
\* artist's score lowered
record_skip_in(h, track, time_played) ==
    IF track.id = "" \/ track.id \notin DOMAIN h.tracks THEN h
    ELSE LET h1 == [h EXCEPT !.tracks[track.id].skip_count = @ + 1]
         IN  IF /\ track.artist # ""
                /\ SkippedEarly(track, time_played)
                /\ track.artist \in DOMAIN h.artists
             THEN [h1 EXCEPT !.artists[track.artist].preference_score =
                                Max(0, @ - SkipPenalty)]
             ELSE h1

----------------------------------------------------------------------------
(* SmartQueue *)

\* _smart_shuffle's interleaving loop: the sequences it can build from the
\* artist tracks still in artist_queues (any one can come next: a random
\* artist, each artist's tracks shuffled) and the stack no_artist.
RECURSIVE Interleave(_, _)
Interleave(grouped, no_artist) ==
    IF grouped = <<>> /\ no_artist = <<>> THEN {<<>>}
    ELSE LET firsts ==
                 IF grouped = <<>> THEN {<<<<>>, grouped>>}
                 ELSE {<<<<grouped[i]>>,
                         SubSeq(grouped, 1, i - 1) \o SubSeq(grouped, i + 1, Len(grouped))>>
                       : i \in 1..Len(grouped)}
             After(f) ==
                 LET rest == f[2]
                     withNo == IF no_artist # <<>>
                               THEN {f[1] \o <<no_artist[Len(no_artist)]>> \o s :
                                     s \in Interleave(rest, SubSeq(no_artist, 1, Len(no_artist) - 1))}
                               ELSE {}
                     without == IF rest # <<>> \/ no_artist = <<>>
                                THEN {f[1] \o s : s \in Interleave(rest, no_artist)}
                                ELSE {}
                 IN  withNo \cup without
         IN  UNION {After(f) : f \in firsts}

\* a pass that interleaves the artist groups only
_smart_shuffle_grouped(q) ==
    IF Len(q) < MinShuffleLen THEN {q}
    ELSE Interleave(SelectSeq(q, LAMBDA t : t.artist # ""), <<>>)

\* the values _smart_shuffle can leave in main_queue
_smart_shuffle(q) ==
    IF Len(q) < MinShuffleLen THEN {q}
    ELSE Interleave(SelectSeq(q, LAMBDA t : t.artist # ""),
                    SelectSeq(q, LAMBDA t : t.artist = ""))

_reorganize_queue(q) ==
    IF shuffle_mode = "smart" THEN _smart_shuffle(q) ELSE {q}

\* a pull that marks nothing
_mark_as_played_skip(track) == played_tracks

_mark_as_played(track) ==
    IF track.id # "" THEN played_tracks \cup {track.id} ELSE played_tracks

\* indices of main_queue whose id is not in played_tracks
Available == {i \in 1..Len(main_queue) : main_queue[i].id \notin played_tracks}

SmartScore(track) ==
    get_track_score(track)
    - (IF last_played_track # <<>>
          /\ last_played_track[1].artist # "" /\ track.artist # ""
          /\ last_played_track[1].artist = track.artist
       THEN PenaltySameArtist ELSE 0)

\* i comes before j in scored_tracks.sort(key=score, reverse=True) (stable)
SortsBefore(i, j) ==
    \/ SmartScore(main_queue[i]) > SmartScore(main_queue[j])
    \/ SmartScore(main_queue[i]) = SmartScore(main_queue[j]) /\ i < j

\* a selection from all the tracks not yet played
TopTracks_all == Available

TopTracks ==
    LET top_count == Max(1, Cardinality(Available) \div 3)
    IN  {i \in Available :
            Cardinality({j \in Available : SortsBefore(j, i)}) < top_count}

\* the indices _get_next_smart can pick: random.choices over the positive
\* weights, or the single top entry when the weights sum to zero or less
SmartChoices ==
    LET w == [i \in TopTracks |-> SmartScore(main_queue[i])]
    IN  IF SumOver(w, TopTracks) > 0
        THEN {i \in TopTracks : w[i] > 0}
        ELSE {i \in TopTracks : \A j \in TopTracks : j = i \/ SortsBefore(i, j)}

\* what one get_next_track call does: its return value and the fields it
\* leaves (main_queue is never written by a pull)
Outcome(ret, pq, idx, played, last) ==
    [ret |-> ret, pq |-> pq, idx |-> idx, played |-> played, last |-> last]

NoTrack ==
    Outcome(None, priority_queue, current_index, played_tracks, last_played_track)

\* a pull that forgets to advance the cursor
_get_next_sequential_stuck ==
    IF current_index < Len(main_queue)
    THEN LET track == main_queue[current_index + 1]
         IN  {Outcome(Some(track), priority_queue, current_index,
                      _mark_as_played(track), last_played_track)}
    ELSE {NoTrack}

\* a pull that starts over when the cursor is past the end
_get_next_sequential_wrap ==
    IF current_index < Len(main_queue)
    THEN LET track == main_queue[current_index + 1]
         IN  {Outcome(Some(track), priority_queue, current_index + 1,
                      _mark_as_played(track), last_played_track)}
    ELSE {Outcome(None, priority_queue, 0, played_tracks, last_played_track)}

_get_next_sequential ==
    IF current_index < Len(main_queue)
    THEN LET track == main_queue[current_index + 1]
         IN  {Outcome(Some(track), priority_queue, current_index + 1,
                      _mark_as_played(track), last_played_track)}
    ELSE {NoTrack}

_get_next_random ==
    IF Available # {}
    THEN {Outcome(Some(main_queue[i]), priority_queue, current_index,
                  _mark_as_played(main_queue[i]), last_played_track)
          : i \in Available}
    ELSE {NoTrack}

_get_next_smart ==
    IF Available = {} THEN {NoTrack}
    ELSE {Outcome(Some(main_queue[i]), priority_queue, current_index,
                  _mark_as_played(main_queue[i]), Some(main_queue[i]))
          : i \in SmartChoices}

_get_next_mood_based ==
    IF Available = {} THEN {NoTrack} ELSE _get_next_smart

\* a pull that serves the priority tier from its newest end
get_next_track_outcomes_lifo ==
    IF priority_queue # <<>>
    THEN LET track == priority_queue[Len(priority_queue)]
         IN  {Outcome(Some(track), SubSeq(priority_queue, 1, Len(priority_queue) - 1),
                      current_index, _mark_as_played(track), last_played_track)}
    ELSE {NoTrack}

get_next_track_outcomes ==
    IF priority_queue # <<>>
    THEN LET track == Head(priority_queue)
         IN  {Outcome(Some(track), Tail(priority_queue), current_index,
                      _mark_as_played(track), last_played_track)}
    ELSE CASE shuffle_mode = "sequential" -> _get_next_sequential
           [] shuffle_mode = "random"     -> _get_next_random
           [] shuffle_mode = "smart"      -> _get_next_smart
           [] shuffle_mode = "mood"       -> _get_next_mood_based
           [] OTHER                       -> {NoTrack}

\* add_tracks: [pq, mq], the tiers it can leave
add_tracks_outcomes(tracks, priority) ==
    LET pq == IF priority THEN priority_queue \o tracks ELSE priority_queue
        mq == IF priority THEN main_queue ELSE main_queue \o tracks
    IN  {[pq |-> pq, mq |-> m] : m \in _reorganize_queue(mq)}

\* a set_shuffle_mode that assigns whatever it is given
set_shuffle_mode_outcomes_any(mode) ==
    {[mode |-> mode, mq |-> m] :
     m \in IF mode = "smart" THEN _smart_shuffle(main_queue) ELSE {main_queue}}

\* set_shuffle_mode: [mode, mq]
set_shuffle_mode_outcomes(mode) ==
    IF mode \in {"smart", "random", "sequential", "mood"}
    THEN {[mode |-> mode, mq |-> m] :
          m \in IF mode = "smart" THEN _smart_shuffle(main_queue) ELSE {main_queue}}
    ELSE {[mode |-> shuffle_mode, mq |-> main_queue]}

\* index of the first entry of q whose id is track_id, 0 when there is none
FirstWith(q, track_id) ==
    LET S == {i \in 1..Len(q) : q[i].id = track_id}
    IN  IF S = {} THEN 0 ELSE CHOOSE i \in S : \A j \in S : i <= j

\* del q[k - 1]
Delete(q, k) == SubSeq(q, 1, k - 1) \o SubSeq(q, k + 1, Len(q))

\* a removal that leaves the cursor where it is
remove_track_outcomes_keep(track_id) ==
    LET p == FirstWith(priority_queue, track_id)
        m == FirstWith(main_queue, track_id)
    IN  IF p # 0
        THEN [pq |-> Delete(priority_queue, p), mq |-> main_queue,
              idx |-> current_index, ret |-> TRUE]
        ELSE IF m # 0
             THEN [pq |-> priority_queue, mq |-> Delete(main_queue, m),
                   idx |-> current_index, ret |-> TRUE]
             ELSE [pq |-> priority_queue, mq |-> main_queue,
                   idx |-> current_index, ret |-> FALSE]

\* remove_track: [pq, mq, idx, ret]; the priority tier is searched first,
\* the entry at index m - 1 of the main tier moves the cursor when it
\* precedes it
remove_track_outcomes(track_id) ==
    LET p == FirstWith(priority_queue, track_id)
        m == FirstWith(main_queue, track_id)
    IN  IF p # 0
        THEN [pq |-> Delete(priority_queue, p), mq |-> main_queue,
              idx |-> current_index, ret |-> TRUE]
        ELSE IF m # 0
             THEN [pq |-> priority_queue, mq |-> Delete(main_queue, m),
                   idx |-> IF m - 1 < current_index
                           THEN current_index - 1 ELSE current_index,
                   ret |-> TRUE]
             ELSE [pq |-> priority_queue, mq |-> main_queue,
                   idx |-> current_index, ret |-> FALSE]

\* q.insert(p, t), p counted from 0
Insert(q, p, t) == SubSeq(q, 1, p) \o <<t>> \o SubSeq(q, p + 1, Len(q))

\* move_track: [mq, idx, ret]; the entry is taken out, the cursor stepped
\* back when the entry preceded it, the entry put in at the clamped
\* position, and the cursor stepped on when that position is at or before it
move_track_outcomes(track_id, new_position) ==
    LET m == FirstWith(main_queue, track_id)
    IN  IF m = 0
        THEN [mq |-> main_queue, idx |-> current_index, ret |-> FALSE]
        ELSE LET old_index == m - 1
                 q   == Delete(main_queue, m)
                 c   == IF old_index < current_index
                        THEN current_index - 1 ELSE current_index
                 pos == Max(0, Min(new_position, Len(q)))
             IN  [mq  |-> Insert(q, pos, main_queue[m]),
                  idx |-> IF pos <= c THEN c + 1 ELSE c,
                  ret |-> TRUE]

----------------------------------------------------------------------------
(* The consumer's calls.  Called records the call and keeps the history    *)
(* variables: returned collects the ids get_next_track hands out until     *)
(* clear_played_history; pulled collects the results of consecutive        *)
(* get_next_track calls that began in sequential mode with an empty        *)
(* priority tier and the cursor at 0, up to one past the main tier's       *)
(* length, and is dropped by any other call.                               *)

Call(op, tracks, opt, ret) ==
    [op |-> op, tracks |-> tracks, opt |-> opt, ret |-> ret]

Called(op, tracks, opt, ret) ==
    /\ last_call' = Call(op, tracks, opt, ret)
    /\ returned' =
         IF op = "get_next_track" /\ ret # <<>> /\ ret[1].id # ""
         THEN returned \cup {ret[1].id}
         ELSE IF op = "clear_played_history" THEN {} ELSE returned
    /\ pulled' =
         IF op # "get_next_track" THEN <<>>
         ELSE IF pulled # <<>>
              THEN IF Len(pulled) <= Len(main_queue)
                   THEN Append(pulled, ret) ELSE pulled
              ELSE IF shuffle_mode = "sequential" /\ priority_queue = <<>>
                      /\ current_index = 0
                   THEN <<ret>> ELSE <<>>

get_next_track ==
    /\ consumer_pc = "idle"
    /\ \E o \in get_next_track_outcomes :
          /\ priority_queue' = o.pq
          /\ current_index' = o.idx
          /\ played_tracks' = o.played
          /\ last_played_track' = o.last
          /\ Called("get_next_track", <<>>,
                    IF priority_queue # <<>> THEN "priority" ELSE "main", o.ret)
    /\ UNCHANGED <<main_queue, shuffle_mode, history, dvars, consumer_pc, since_put>>

add_tracks(tracks, priority) ==
    /\ consumer_pc = "idle"
    /\ \E o \in add_tracks_outcomes(tracks, priority) :
          /\ priority_queue' = o.pq
          /\ main_queue' = o.mq
    /\ Called("add_tracks", tracks, IF priority THEN "priority" ELSE "main", None)
    /\ UNCHANGED <<current_index, played_tracks, shuffle_mode, last_played_track,
                   history, dvars, consumer_pc, since_put>>

set_shuffle_mode(mode) ==
    /\ consumer_pc = "idle"
    /\ \E o \in set_shuffle_mode_outcomes(mode) :
          /\ shuffle_mode' = o.mode
          /\ main_queue' = o.mq
    /\ Called("set_shuffle_mode", <<>>, mode, None)
    /\ UNCHANGED <<priority_queue, current_index, played_tracks, last_played_track,
                   history, dvars, consumer_pc, since_put>>

remove_track(track_id) ==
    /\ consumer_pc = "idle"
    /\ LET o == remove_track_outcomes(track_id)
       IN  /\ priority_queue' = o.pq
           /\ main_queue' = o.mq
           /\ current_index' = o.idx
           /\ Called("remove_track", <<>>, track_id, Some(o.ret))
    /\ UNCHANGED <<played_tracks, shuffle_mode, last_played_track,
                   history, dvars, consumer_pc, since_put>>

move_track(track_id, new_position) ==
    /\ consumer_pc = "idle"
    /\ LET o == move_track_outcomes(track_id, new_position)
       IN  /\ main_queue' = o.mq
           /\ current_index' = o.idx
           /\ Called("move_track", <<>>, track_id, Some(o.ret))
    /\ UNCHANGED <<priority_queue, played_tracks, shuffle_mode, last_played_track,
                   history, dvars, consumer_pc, since_put>>

\* a reset that leaves the cursor where it is
\* ListeningHistory.record_play, without duration_played as play_tracks
\* calls it when a track starts
record_play(track) ==
    /\ consumer_pc = "idle"
    /\ history' = record_play_in(history, track)
    /\ Called("record_play", <<track>>, "", None)
    /\ UNCHANGED <<priority_queue, main_queue, current_index, played_tracks,
                   shuffle_mode, last_played_track, dvars, consumer_pc, since_put>>

\* ListeningHistory.record_skip
record_skip(track, time_played) ==
    /\ consumer_pc = "idle"
    /\ history' = record_skip_in(history, track, time_played)
    /\ Called("record_skip", <<track>>,
              IF SkippedEarly(track, time_played) THEN "early" ELSE "late", None)
    /\ UNCHANGED <<priority_queue, main_queue, current_index, played_tracks,
                   shuffle_mode, last_played_track, dvars, consumer_pc, since_put>>

clear_played_history_keep ==
    /\ consumer_pc = "idle"
    /\ played_tracks' = {}
    /\ Called("clear_played_history", <<>>, "", None)
    /\ UNCHANGED <<priority_queue, main_queue, shuffle_mode, last_played_track,
                   history, dvars, consumer_pc, since_put, current_index>>

clear_played_history ==
    /\ consumer_pc = "idle"
    /\ played_tracks' = {}
    /\ current_index' = 0
    /\ Called("clear_played_history", <<>>, "", None)
    /\ UNCHANGED <<priority_queue, main_queue, shuffle_mode, last_played_track,
                   history, dvars, consumer_pc, since_put>>

----------------------------------------------------------------------------
(* BackgroundDiscovery: the calls of the playback thread.  The clock is    *)
(* kept as time since last_discovery_time (elapsed) and as time since a    *)
(* trigger was last placed on the channel (since_put), in whole seconds    *)
(* and saturated at the largest interval the rate limiter compares with.   *)

\* a worker thread: where it is in _discovery_worker, and the locals of a
\* discovery round
Thread(pc, new_tracks, existing_ids) ==
    [pc |-> pc, new_tracks |-> new_tracks, existing_ids |-> existing_ids]

NoThread == Thread("none", <<>>, {})

get_queue_info == [total_tracks |-> Len(main_queue) + Len(priority_queue)]

Live == {i \in 1..MaxThreads : threads[i].pc \notin {"none", "dead"}}
Free == {i \in 1..MaxThreads : threads[i].pc \in {"none", "dead"}}

start ==
    /\ consumer_pc = "idle"
    /\ IF is_running
       THEN UNCHANGED <<is_running, discovery_thread, threads>>
       ELSE /\ Free # {}
            /\ LET i == CHOOSE j \in Free : \A k \in Free : j <= k
               IN  /\ threads' = [threads EXCEPT ![i] = Thread("loop", <<>>, {})]
                   /\ discovery_thread' = i
            /\ is_running' = TRUE
    /\ Called("start", <<>>, "", None)
    /\ UNCHANGED <<qvars, discovery_queue, seed_tracks, discovered_artists,
                   artist_exploration_depth, elapsed, min_discovery_interval,
                   target_queue_size, discovery_batch_size, consumer_pc, since_put>>

\* stop: clears the flag and waits in join(timeout=2) for the thread
stop ==
    /\ consumer_pc = "idle"
    /\ is_running' = FALSE
    /\ consumer_pc' = IF discovery_thread # 0 THEN "join" ELSE "idle"
    /\ Called("stop", <<>>, "", None)
    /\ UNCHANGED <<qvars, discovery_thread, threads, discovery_queue, seed_tracks,
                   discovered_artists, artist_exploration_depth, elapsed,
                   min_discovery_interval, target_queue_size,
                   discovery_batch_size, since_put>>

\* join(timeout=2) returns: the thread has ended, or the two seconds are
\* over with the thread in sleep(5) or waiting for the provider
join_returns ==
    /\ consumer_pc = "join"
    /\ threads[discovery_thread].pc \in {"dead", "sleep", "batch", "bootstrap", "enhance"}
    /\ consumer_pc' = "idle"
    /\ Called("stop", <<>>, "joined", None)
    /\ UNCHANGED <<qvars, dvars, since_put>>

\* the rate limiter switched off
RateLimited_never == FALSE

\* current_time - self.last_discovery_time < self.min_discovery_interval
RateLimited == elapsed < min_discovery_interval

\* _trigger_discovery: [elapsed, dq, pc, put]: put tells whether the reason
\* went onto the channel; pc "put" is the caller waiting in
\* put(reason, timeout=0.1) on a full channel
_trigger_discovery(reason) ==
    IF RateLimited
    THEN [elapsed |-> elapsed, dq |-> discovery_queue, pc |-> "idle", put |-> FALSE]
    ELSE IF Len(discovery_queue) < TriggerChannelSize
         THEN [elapsed |-> 0, dq |-> Append(discovery_queue, reason),
               pc |-> "idle", put |-> TRUE]
         ELSE [elapsed |-> 0, dq |-> discovery_queue, pc |-> "put", put |-> FALSE]

NoTrigger ==
    [elapsed |-> elapsed, dq |-> discovery_queue, pc |-> "idle", put |-> FALSE]

\* deque(maxlen=5).append
SeedAppend(track) ==
    LET s == Append(seed_tracks, track)
    IN  IF Len(s) > SeedWindow THEN Tail(s) ELSE s

\* the trigger decision of add_seed_track
SeedTrigger(track) ==
    IF track.artist # ""
    THEN IF get_queue_info.total_tracks < LowWaterMark
         THEN _trigger_discovery("low_queue") ELSE NoTrigger
    ELSE NoTrigger

add_seed_track(track) ==
    /\ consumer_pc = "idle"
    /\ seed_tracks' = SeedAppend(track)
    /\ IF track.artist # ""
       THEN /\ discovered_artists' = discovered_artists \cup {track.artist}
            /\ artist_exploration_depth' =
                 IF track.artist \in DOMAIN artist_exploration_depth
                 THEN artist_exploration_depth
                 ELSE [a \in DOMAIN artist_exploration_depth \cup {track.artist} |->
                         IF a = track.artist THEN 0 ELSE artist_exploration_depth[a]]
       ELSE UNCHANGED <<discovered_artists, artist_exploration_depth>>
    /\ LET t == SeedTrigger(track)
       IN  /\ elapsed' = t.elapsed
           /\ discovery_queue' = t.dq
           /\ consumer_pc' = t.pc
           /\ since_put' = IF t.put THEN 0 ELSE since_put
    /\ Called("add_seed_track", <<track>>,
              IF RateLimited THEN "limited" ELSE "permitted", None)
    /\ UNCHANGED <<qvars, is_running, discovery_thread, threads,
                   min_discovery_interval, target_queue_size, discovery_batch_size>>

\* the waiting put goes through: a worker took a trigger off the channel
put_done ==
    /\ consumer_pc = "put"
    /\ Len(discovery_queue) < TriggerChannelSize
    /\ discovery_queue' = Append(discovery_queue, "low_queue")
    /\ since_put' = 0
    /\ consumer_pc' = "idle"
    /\ Called("add_seed_track", <<>>, "put", None)
    /\ UNCHANGED <<qvars, is_running, discovery_thread, threads, seed_tracks,
                   discovered_artists, artist_exploration_depth, elapsed,
                   min_discovery_interval, target_queue_size, discovery_batch_size>>

\* the waiting put times out: queue.Full, the trigger is dropped
put_full ==
    /\ consumer_pc = "put"
    /\ Len(discovery_queue) >= TriggerChannelSize
    /\ consumer_pc' = "idle"
    /\ Called("add_seed_track", <<>>, "full", None)
    /\ UNCHANGED <<qvars, dvars, since_put>>

\* reset_context: the context is cleared and the channel drained;
\* last_discovery_time is left as it is
reset_context ==
    /\ consumer_pc = "idle"
    /\ seed_tracks' = <<>>
    /\ discovered_artists' = {}
    /\ artist_exploration_depth' = <<>>
    /\ discovery_queue' = <<>>
    /\ Called("reset_context", <<>>, "", None)
    /\ UNCHANGED <<qvars, is_running, discovery_thread, threads, elapsed,
                   min_discovery_interval, target_queue_size,
                   discovery_batch_size, consumer_pc, since_put>>

\* _check_queue_health: the trigger decision of the periodic check.  No
\* function of the program calls it, neither the loop of _discovery_worker
\* nor the playback thread, so no step of the model takes it.
_check_queue_health ==
    IF get_queue_info.total_tracks < CriticalMark
    THEN _trigger_discovery("periodic_check") ELSE NoTrigger

\* a cleanup that keeps the entries of least depth
PruneDepth_least(depth) ==
    LET Before(j, i) == \/ depth[j] < depth[i]
                        \/ depth[j] = depth[i] /\ j < i
        keep == {i \in DOMAIN depth :
                   Cardinality({j \in DOMAIN depth : Before(j, i)}) < PruneKeep}
    IN  IF Cardinality(DOMAIN depth) > PruneCeiling
        THEN [i \in keep |-> depth[i]]
        ELSE depth

\* the cleanup of _check_queue_health: beyond 50 entries the map is sorted
\* by depth, largest first (a stable sort: of equal depths the entry
\* inserted earlier comes first), and the first 20 entries are kept.  The
\* keys of a map pruned here are the artists' insertion ranks.
PruneDepth(depth) ==
    LET Before(j, i) == \/ depth[j] > depth[i]
                        \/ depth[j] = depth[i] /\ j < i
        keep == {i \in DOMAIN depth :
                   Cardinality({j \in DOMAIN depth : Before(j, i)}) < PruneKeep}
    IN  IF Cardinality(DOMAIN depth) > PruneCeiling
        THEN [i \in keep |-> depth[i]]
        ELSE depth

\* _check_queue_health as a step of the thread that would call it
check_queue_health ==
    /\ consumer_pc = "idle"
    /\ LET t == _check_queue_health
       IN  /\ elapsed' = t.elapsed
           /\ discovery_queue' = t.dq
           /\ consumer_pc' = t.pc
           /\ since_put' = IF t.put THEN 0 ELSE since_put
    /\ artist_exploration_depth' = PruneDepth(artist_exploration_depth)
    /\ Called("_check_queue_health", <<>>, "", None)
    /\ UNCHANGED <<qvars, is_running, discovery_thread, threads, seed_tracks,
                   discovered_artists, min_discovery_interval,
                   target_queue_size, discovery_batch_size>>

\* adjust_discovery_rate: <<target_queue_size, discovery_batch_size,
\* min_discovery_interval>>
RateLevel(rate) ==
    CASE rate = "conservative" -> <<15, 3, 15>>
      [] rate = "moderate"     -> <<30, 5, 10>>
      [] rate = "aggressive"   -> <<50, 8, 5>>
      [] OTHER -> <<target_queue_size, discovery_batch_size, min_discovery_interval>>

adjust_discovery_rate(rate) ==
    /\ consumer_pc = "idle"
    /\ target_queue_size' = RateLevel(rate)[1]
    /\ discovery_batch_size' = RateLevel(rate)[2]
    /\ min_discovery_interval' = RateLevel(rate)[3]
    /\ Called("adjust_discovery_rate", <<>>, rate, None)
    /\ UNCHANGED <<qvars, is_running, discovery_thread, threads, discovery_queue,
                   seed_tracks, discovered_artists, artist_exploration_depth,
                   elapsed, consumer_pc, since_put>>

\* one second passes (not while the consumer is inside the 0.1 s put)
Tick ==
    /\ consumer_pc # "put"
    /\ elapsed' = Min(elapsed + 1, MaxInterval)
    /\ since_put' = Min(since_put + 1, MaxInterval)
    /\ last_call' = Call("tick", <<>>, "", None)
    /\ UNCHANGED <<qvars, is_running, discovery_thread, threads, discovery_queue,
                   seed_tracks, discovered_artists, artist_exploration_depth,
                   min_discovery_interval, target_queue_size, discovery_batch_size,
                   consumer_pc, returned, pulled>>

----------------------------------------------------------------------------
(* BackgroundDiscovery: the worker thread, one step per place where it     *)
(* waits (the channel, a sleep, the provider) or re-reads the flag.        *)

\* a choice that explores an artist of depth 3 once more
_choose_discovery_strategy_deeper ==
    LET recent_track == seed_tracks[Len(seed_tracks)]
        depth == IF recent_track.artist \in DOMAIN artist_exploration_depth
                 THEN artist_exploration_depth[recent_track.artist] ELSE 0
    IN  IF recent_track.artist # "" /\ depth <= 3 THEN "artist"
        ELSE IF Cardinality(discovered_artists) < 10 THEN "related"
        ELSE "genre"

_choose_discovery_strategy ==
    LET recent_track == seed_tracks[Len(seed_tracks)]
        depth == IF recent_track.artist \in DOMAIN artist_exploration_depth
                 THEN artist_exploration_depth[recent_track.artist] ELSE 0
    IN  IF recent_track.artist # "" /\ depth < 3 THEN "artist"
        ELSE IF Cardinality(discovered_artists) < 10 THEN "related"
        ELSE "genre"

\* _choose_discovery_strategy as a step of a round with seeds
choose_discovery_strategy ==
    /\ seed_tracks # <<>>
    /\ last_call' = Call("_choose_discovery_strategy", <<>>,
                         _choose_discovery_strategy, None)
    /\ UNCHANGED <<qvars, dvars, consumer_pc, returned, pulled, since_put>>

\* list(self.seed_tracks)[-3:]
RecentTracks == SubSeq(seed_tracks, Max(1, Len(seed_tracks) - 2), Len(seed_tracks))

\* the artists the "artist" strategy counts, once per recent seed
RECURSIVE CountArtists(_, _)
CountArtists(tracks, depth) ==
    IF tracks = <<>> THEN depth
    ELSE LET a == Head(tracks).artist
             d == IF a = "" THEN depth
                  ELSE [b \in DOMAIN depth \cup {a} |->
                          IF b = a
                          THEN (IF a \in DOMAIN depth THEN depth[a] ELSE 0) + 1
                          ELSE depth[b]]
         IN  CountArtists(Tail(tracks), d)

\* _generate_discovery_queries: [queries, depth]: the queries one of which
\* is dispatched (the list is shuffled and its first entry used), and the
\* exploration-depth map it leaves
_generate_discovery_queries(strategy) ==
    LET artists == {RecentTracks[k].artist : k \in 1..Len(RecentTracks)} \ {""}
    IN  CASE strategy = "artist" ->
               [queries |-> artists,
                depth |-> CountArtists(RecentTracks, artist_exploration_depth)]
          [] strategy = "related" ->
               [queries |-> {"artists like " \o a : a \in artists},
                depth |-> artist_exploration_depth]
          [] OTHER ->
               [queries |-> {"alternative music"}, depth |-> artist_exploration_depth]

\* the ids _filter_discovered_tracks collects before it filters
ExistingIds == TrackIds(main_queue) \cup TrackIds(priority_queue) \cup TrackIds(seed_tracks)

\* the filtering loop without the quality floor
RECURSIVE FilterFrom_any(_, _, _, _)
FilterFrom_any(tracks, k, existing_ids, ok) ==
    IF k > Len(tracks) THEN <<>>
    ELSE LET track == tracks[k]
         IN  IF track.id \in existing_ids \/ k \notin ok
             THEN FilterFrom_any(tracks, k + 1, existing_ids, ok)
             ELSE <<[track EXCEPT !.auto_discovered = TRUE]>>
                  \o FilterFrom_any(tracks, k + 1, existing_ids \cup {track.id}, ok)

\* the filtering loop of _filter_discovered_tracks over tracks[k..]; ok holds
\* the positions whose enhance_track_info yields an audio_url
RECURSIVE FilterFrom(_, _, _, _)
FilterFrom(tracks, k, existing_ids, ok) ==
    IF k > Len(tracks) THEN <<>>
    ELSE LET track == tracks[k]
         IN  IF track.id \in existing_ids \/ track.quality_score < QualityFloor
             THEN FilterFrom(tracks, k + 1, existing_ids, ok)
             ELSE IF k \in ok
                  THEN <<[track EXCEPT !.auto_discovered = TRUE]>>
                       \o FilterFrom(tracks, k + 1, existing_ids \cup {track.id}, ok)
                  ELSE FilterFrom(tracks, k + 1, existing_ids, ok)

\* candidates of the provider (music_discovery.search_with_strategy)
DD == Track("d", "X", 700, 200)
DL == Track("e", "Y", 300, 200)
ProviderResults == {<<>>, <<DD>>, <<TA, DL>>}

\* a step of worker i that leaves it as t; opt is "raise" when the step is
\* a provider search raising
WorkerStepAs(i, t, opt) ==
    /\ threads' = [threads EXCEPT ![i] = t]
    /\ last_call' = Call("worker", <<>>, opt, None)
    /\ pulled' = <<>>
    /\ UNCHANGED <<history, is_running, discovery_thread, seed_tracks,
                   discovered_artists, elapsed, min_discovery_interval,
                   target_queue_size, discovery_batch_size, consumer_pc,
                   returned, since_put, priority_queue, current_index,
                   played_tracks, shuffle_mode, last_played_track>>

WorkerStep(i, t) == WorkerStepAs(i, t, "")

\* the loop without its test of the flag
worker_loop_forever(i) ==
    /\ threads[i].pc = "loop"
    /\ WorkerStep(i, Thread("get", <<>>, {}))
    /\ UNCHANGED <<main_queue, discovery_queue, artist_exploration_depth>>

\* while self.is_running
worker_loop(i) ==
    /\ threads[i].pc = "loop"
    /\ WorkerStep(i, Thread(IF is_running THEN "get" ELSE "dead", <<>>, {}))
    /\ UNCHANGED <<main_queue, discovery_queue, artist_exploration_depth>>

\* discovery_queue.get(timeout=1): a reason, or queue.Empty
worker_get(i) ==
    /\ threads[i].pc = "get"
    /\ IF discovery_queue # <<>>
       THEN /\ discovery_queue' = Tail(discovery_queue)
            /\ WorkerStep(i, Thread("got", <<>>, {}))
       ELSE /\ UNCHANGED discovery_queue
            /\ WorkerStep(i, Thread("sleep", <<>>, {}))
    /\ UNCHANGED <<main_queue, artist_exploration_depth>>

\* time.sleep(5), then the loop again
worker_sleep(i) ==
    /\ threads[i].pc = "sleep"
    /\ WorkerStep(i, Thread("loop", <<>>, {}))
    /\ UNCHANGED <<main_queue, discovery_queue, artist_exploration_depth>>

\* if not self.is_running: break; else _perform_discovery up to its search
worker_got(i) ==
    /\ threads[i].pc = "got"
    /\ IF ~is_running
       THEN /\ WorkerStep(i, Thread("dead", <<>>, {}))
            /\ UNCHANGED artist_exploration_depth
       ELSE IF seed_tracks = <<>>
       THEN /\ WorkerStep(i, Thread("bootstrap", <<>>, {}))
            /\ UNCHANGED artist_exploration_depth
       ELSE LET g == _generate_discovery_queries(_choose_discovery_strategy)
            IN  /\ artist_exploration_depth' = g.depth
                /\ WorkerStep(i, Thread(IF g.queries # {} THEN "batch" ELSE "loop",
                                        <<>>, {}))
    /\ UNCHANGED <<main_queue, discovery_queue>>

\* the round's locals once the search has returned: back to the loop with
\* nothing found, else the ids of _filter_discovered_tracks are collected
AfterSearch(new_tracks) ==
    IF new_tracks = <<>> THEN Thread("loop", <<>>, {})
    ELSE Thread("enhance", new_tracks, ExistingIds)

\* _discover_batch returns (an exception gives []), batch[:batch_size]
worker_batch(i) ==
    /\ threads[i].pc = "batch"
    /\ \/ \E r \in ProviderResults :
             WorkerStep(i, AfterSearch(SubSeq(r, 1, Min(Len(r), discovery_batch_size))))
       \/ WorkerStepAs(i, Thread("loop", <<>>, {}), "raise")
    /\ UNCHANGED <<main_queue, discovery_queue, artist_exploration_depth>>

\* the bootstrap round whose exception ends the thread
worker_bootstrap_unhandled(i) ==
    /\ threads[i].pc = "bootstrap"
    /\ \/ \E r \in ProviderResults : WorkerStep(i, AfterSearch(r))
       \/ WorkerStepAs(i, Thread("dead", <<>>, {}), "raise")
    /\ UNCHANGED <<main_queue, discovery_queue, artist_exploration_depth>>

\* _discover_without_context: the searches return, or one raises and the
\* worker's except clause sleeps.  A round starts here only when the seed
\* window is empty, and every trigger is placed by add_seed_track after it
\* has appended a seed: the step belongs to runs in which reset_context
\* empties the window under a pending trigger.
worker_bootstrap(i) ==
    /\ threads[i].pc = "bootstrap"
    /\ \/ \E r \in ProviderResults : WorkerStep(i, AfterSearch(r))
       \/ WorkerStepAs(i, Thread("sleep", <<>>, {}), "raise")
    /\ UNCHANGED <<main_queue, discovery_queue, artist_exploration_depth>>

\* enhance_track_info has answered for every candidate: filter, add_tracks
worker_enhance(i) ==
    /\ threads[i].pc = "enhance"
    /\ \E ok \in SUBSET (1..Len(threads[i].new_tracks)) :
          LET filtered == FilterFrom(threads[i].new_tracks, 1,
                                     threads[i].existing_ids, ok)
          IN  IF filtered # <<>>
              THEN \E o \in add_tracks_outcomes(filtered, FALSE) : main_queue' = o.mq
              ELSE UNCHANGED main_queue
    /\ WorkerStep(i, Thread("loop", <<>>, {}))
    /\ UNCHANGED <<discovery_queue, artist_exploration_depth>>

\* smart_queue.add_tracks(filtered_tracks) of the round, up to the point
\* where _smart_shuffle has read the main tier: the list is extended and,
\* in smart mode with three tracks or more, the local list shuffled is
\* built from what the main tier holds now
worker_add_extend(i) ==
    /\ threads[i].pc = "enhance"
    /\ \E ok \in SUBSET (1..Len(threads[i].new_tracks)) :
          LET filtered == FilterFrom(threads[i].new_tracks, 1,
                                     threads[i].existing_ids, ok)
              extended == main_queue \o filtered
          IN  IF filtered = <<>>
              THEN /\ UNCHANGED main_queue
                   /\ WorkerStep(i, Thread("loop", <<>>, {}))
              ELSE /\ main_queue' = extended
                   /\ IF shuffle_mode = "smart" /\ Len(extended) >= MinShuffleLen
                      THEN \E shuffled \in _smart_shuffle(extended) :
                              WorkerStep(i, Thread("shuffle", shuffled, {}))
                      ELSE WorkerStep(i, Thread("loop", <<>>, {}))
    /\ UNCHANGED <<discovery_queue, artist_exploration_depth>>

\* self.main_queue = shuffled, the last statement of _smart_shuffle
worker_add_assign(i) ==
    /\ threads[i].pc = "shuffle"
    /\ main_queue' = threads[i].new_tracks
    /\ WorkerStep(i, Thread("loop", <<>>, {}))
    /\ UNCHANGED <<discovery_queue, artist_exploration_depth>>

\* the worker with the statements of its add_tracks as separate steps
WorkerL(i) ==
    \/ worker_loop(i)
    \/ worker_get(i)
    \/ worker_sleep(i)
    \/ worker_got(i)
    \/ worker_batch(i)
    \/ worker_add_extend(i)
    \/ worker_add_assign(i)

Worker(i) ==
    \/ worker_loop(i)
    \/ worker_get(i)
    \/ worker_sleep(i)
    \/ worker_got(i)
    \/ worker_batch(i)
    \/ worker_enhance(i)

\* the worker where reset_context can empty the seed window under it
WorkerR(i) ==
    \/ Worker(i)
    \/ worker_bootstrap(i)

----------------------------------------------------------------------------
(* The state after construction: SmartQueue() and BackgroundDiscovery()    *)

----------------------------------------------------------------------------
(* MusicDiscovery._remove_duplicates.  A string is a sequence of           *)
(* characters; a candidate is a record with the field metadata, None or    *)
(* Some of the normalized artist and the normalized title.                 *)

\* get_bigrams
get_bigrams(s) == {<<s[i], s[i + 1]>> : i \in 1..(Len(s) - 1)}

\* _string_similarity: the Jaccard index of the bigram sets as the fraction
\* num / den; 0 for an empty string, 1 when neither string has a bigram
_string_similarity(s1, s2) ==
    IF s1 = <<>> \/ s2 = <<>> THEN [num |-> 0, den |-> 1]
    ELSE LET bigrams1 == get_bigrams(s1)
             bigrams2 == get_bigrams(s2)
         IN  IF bigrams1 = {} /\ bigrams2 = {} THEN [num |-> 1, den |-> 1]
             ELSE IF bigrams1 = {} \/ bigrams2 = {} THEN [num |-> 0, den |-> 1]
             ELSE [num |-> Cardinality(bigrams1 \cap bigrams2),
                   den |-> Cardinality(bigrams1 \cup bigrams2)]

\* similarity > 0.8
Above(similarity) == similarity.num * 10 > similarity.den * 8

\* f"{normalized_artist}:{normalized_title}"
Signature(metadata) ==
    metadata.normalized_artist \o <<":">> \o metadata.normalized_title

\* existing_sig.split(":", 1): the parts before and after the first colon
SplitSignature(sig) ==
    LET c == CHOOSE i \in 1..Len(sig) :
                 sig[i] = ":" /\ \A j \in 1..(i - 1) : sig[j] # ":"
    IN  [artist |-> SubSeq(sig, 1, c - 1), title |-> SubSeq(sig, c + 1, Len(sig))]

\* the test of one candidate against the accepted signatures
is_duplicate(metadata, seen_signatures) ==
    \E existing_sig \in seen_signatures :
        LET e == SplitSignature(existing_sig)
        IN  /\ Above(_string_similarity(metadata.normalized_title, e.title))
            /\ Above(_string_similarity(metadata.normalized_artist, e.artist))

\* the loop of _remove_duplicates over tracks[k..]
RECURSIVE UniqueFrom(_, _, _)
UniqueFrom(tracks, k, seen_signatures) ==
    IF k > Len(tracks) THEN <<>>
    ELSE LET track == tracks[k]
         IN  IF track.metadata = None
             THEN UniqueFrom(tracks, k + 1, seen_signatures)
             ELSE IF is_duplicate(track.metadata[1], seen_signatures)
                  THEN UniqueFrom(tracks, k + 1, seen_signatures)
                  ELSE <<track>> \o
                       UniqueFrom(tracks, k + 1,
                                  seen_signatures \cup {Signature(track.metadata[1])})

_remove_duplicates(tracks) == UniqueFrom(tracks, 1, {})

\* MusicDiscovery._remove_duplicates, called on a list of candidates
remove_duplicates(tracks) ==
    /\ consumer_pc = "idle"
    /\ Called("_remove_duplicates", tracks, "", Some(_remove_duplicates(tracks)))
    /\ UNCHANGED <<qvars, dvars, consumer_pc, since_put>>

----------------------------------------------------------------------------
(* The state after construction *)

Init ==
    /\ priority_queue = <<>>
    /\ main_queue = <<>>
    /\ current_index = 0
    /\ played_tracks = {}
    /\ shuffle_mode = "smart"
    /\ last_played_track = <<>>
    /\ history = [tracks |-> <<>>, artists |-> <<>>]
    /\ is_running = FALSE
    /\ discovery_thread = 0
    /\ threads = [i \in 1..MaxThreads |-> NoThread]
    /\ discovery_queue = <<>>
    /\ seed_tracks = <<>>
    /\ discovered_artists = {}
    /\ artist_exploration_depth = <<>>
    /\ elapsed = MaxInterval
    /\ min_discovery_interval = 10
    /\ target_queue_size = 30
    /\ discovery_batch_size = 5
    /\ consumer_pc = "idle"
    /\ last_call = Call("init", <<>>, "", None)
    /\ returned = {}
    /\ pulled = <<>>
    /\ since_put = MaxInterval

----------------------------------------------------------------------------
(* SpecQ: the SmartQueue driven by one thread *)

QueueTracks == {TA, TB, TZ}
QueueInputs == {<<t>> : t \in QueueTracks} \cup {<<t, u>> : t, u \in QueueTracks}

AddTracks ==
    \E tracks \in QueueInputs, priority \in BOOLEAN :
        /\ priority => Len(priority_queue) + Len(tracks) <= MaxPrio
        /\ ~priority => Len(main_queue) + Len(tracks) <= MaxMain
        /\ add_tracks(tracks, priority)

SetShuffleMode ==
    \E mode \in Modes \cup {"shuffle"} : set_shuffle_mode(mode)

NextQ ==
    \/ AddTracks
    \/ get_next_track
    \/ SetShuffleMode
    \/ clear_played_history

SpecQ == Init /\ [][NextQ]_vars

----------------------------------------------------------------------------
(* SpecT: the trigger path.  The playback thread reports seeds and changes *)
(* the discovery rate while the clock runs and a worker serves the channel.*)

Rates == {"conservative", "moderate", "aggressive", "fast"}

AdjustDiscoveryRate == \E rate \in Rates : adjust_discovery_rate(rate)

NextT ==
    \/ start
    \/ add_seed_track(TA)
    \/ put_done
    \/ put_full
    \/ AdjustDiscoveryRate
    \/ Tick
    \/ Worker(1)

SpecT == Init /\ [][NextT]_vars

----------------------------------------------------------------------------
(* SpecW: the worker threads.  The playback thread starts and stops the    *)
(* service, reports seeds, resets the context and inserts tracks while the *)
(* workers run; the clock stands still.                                    *)

\* the playback thread inserts the track the provider also offers
InsertTrack ==
    /\ Len(main_queue) < MaxInsert
    /\ add_tracks(<<DD>>, FALSE)

NextW ==
    \/ start
    \/ stop
    \/ join_returns
    \/ add_seed_track(TA)
    \/ reset_context
    \/ InsertTrack
    \/ \E i \in 1..MaxThreads : WorkerR(i)

SpecW == Init /\ [][NextW]_vars

\* the threads are scheduled, and join(timeout=2) comes back
FairSpecW ==
    /\ SpecW
    /\ \A i \in 1..MaxThreads : WF_vars(WorkerR(i))
    /\ WF_vars(join_returns)

----------------------------------------------------------------------------
(* FairSpec: playback.  The playback thread starts the service, inserts a  *)
(* search result, pulls tracks and reports the tracks it has played; the   *)
(* worker thread runs, the clock advances and playback goes on.            *)

SearchResults == {<<TA, TN>>, <<TA, TB, TC, TN, TM>>}

\* play_tracks: the queue is filled once, from the search result
InsertSearchResult ==
    \E tracks \in SearchResults :
        /\ main_queue = <<>>
        /\ add_tracks(tracks, FALSE)

Reported(track) == track \in Range(seed_tracks)

\* play_tracks: the next track is pulled once the last one is reported
PullNext ==
    /\ \A k \in 1..Len(main_queue) :
          main_queue[k].id \in played_tracks => Reported(main_queue[k])
    /\ get_next_track

\* play_tracks: a played track is reported as a seed
ReportPlayed ==
    \E k \in 1..Len(main_queue) :
        /\ main_queue[k].id \in played_tracks
        /\ ~Reported(main_queue[k])
        /\ add_seed_track(main_queue[k])

NextF ==
    \/ start
    \/ InsertSearchResult
    \/ PullNext
    \/ ReportPlayed
    \/ Tick
    \/ Worker(1)

FairSpec ==
    /\ Init /\ [][NextF]_vars
    /\ WF_vars(Worker(1))
    /\ WF_vars(Tick)
    /\ WF_vars(PullNext)
    /\ WF_vars(ReportPlayed)

----------------------------------------------------------------------------
(* Properties of the SmartQueue, checked under SpecQ *)

\* C4: whenever the priority tier is non-empty, get_next_track returns its
\* head, whatever the shuffle mode, removes it and leaves the main tier and
\* the cursor alone; add_tracks(priority=True) appends its list in order at
\* the tail, so priority tracks come out in insertion order before any
\* main-tier track.
C4_PriorityFirst ==
    [][/\ (last_call'.op = "get_next_track" /\ priority_queue # <<>>)
          => /\ last_call'.ret = Some(Head(priority_queue))
             /\ priority_queue' = Tail(priority_queue)
             /\ main_queue' = main_queue
             /\ current_index' = current_index
       /\ (last_call'.op = "add_tracks" /\ last_call'.opt = "priority")
          => priority_queue' = priority_queue \o last_call'.tracks]_vars

\* a priority pull in random mode, with a second priority track still
\* waiting and unplayed main-tier tracks passed over
C4_Witness ==
    /\ last_call.op = "get_next_track"
    /\ last_call.opt = "priority"
    /\ last_call.ret # None
    /\ priority_queue # <<>>
    /\ shuffle_mode = "random"
    /\ Available # {}

\* C5: in sequential mode, with an empty priority tier, the cursor at 0 and
\* nothing but pulls in between, the i-th pull returns the i-th main-tier
\* entry, for every i up to the length, and the pull after that returns
\* None.
C5_SequentialExhaustsOnce ==
    \A i \in 1..Len(pulled) :
        pulled[i] = IF i <= Len(main_queue) THEN Some(main_queue[i]) ELSE None

\* a run of sequential pulls that went through a three-track tier and got
\* None from the pull that followed
C5_Witness ==
    /\ Len(main_queue) = 3
    /\ Len(pulled) = 4
    /\ pulled[4] = None

\* C6: an id is in played_tracks exactly when get_next_track has returned a
\* track with that id since the last clear_played_history.
C6_PlayedIffReturned ==
    \A id \in Ids : id \in played_tracks <=> id \in returned

\* two ids returned, one from each tier, and both are marked
C6_Witness ==
    /\ Cardinality(returned) = 2
    /\ last_call.op = "get_next_track"
    /\ last_call.opt = "priority"
    /\ last_call.ret # None

\* no entry of the main tier is eligible under the active mode
NoEligible ==
    IF shuffle_mode = "sequential"
    THEN current_index >= Len(main_queue)
    ELSE \A i \in 1..Len(main_queue) : main_queue[i].id \in played_tracks

\* C7: with an empty priority tier and no eligible main-tier entry,
\* get_next_track returns None and changes neither tier, nor the cursor, nor
\* played_tracks.
C7_ExhaustedReturnsNone ==
    [][(last_call'.op = "get_next_track" /\ priority_queue = <<>> /\ NoEligible)
       => /\ last_call'.ret = None
          /\ UNCHANGED <<priority_queue, main_queue, current_index,
                         played_tracks>>]_vars

\* an exhausted pull in smart mode, every main-tier track played
C7_Witness ==
    /\ last_call.op = "get_next_track"
    /\ last_call.ret = None
    /\ shuffle_mode = "smart"
    /\ Len(main_queue) >= 2
    /\ NoEligible

\* an exhausted pull in sequential mode
C7_WitnessSequential ==
    /\ last_call.op = "get_next_track"
    /\ last_call.ret = None
    /\ shuffle_mode = "sequential"
    /\ current_index = Len(main_queue)
    /\ Len(main_queue) >= 2

----------------------------------------------------------------------------
(* Properties of the trigger path, checked under SpecT *)

C9_NeverWaits == consumer_pc # "put"

----------------------------------------------------------------------------
(* Properties of the worker threads, checked under SpecW *)

\* C2: whatever the sequence of start() and stop(), at most one worker
\* thread is in the loop of _discovery_worker while the service runs, so no
\* two threads can each perform a discovery round.
C2_OneWorker == is_running => Cardinality(Live) <= 1

\* the shared state of the SmartQueue and of the discovery context
shared == <<priority_queue, main_queue, current_index, played_tracks,
            seed_tracks, discovered_artists, artist_exploration_depth>>

\* C3: while a worker is inside the read of _filter_discovered_tracks, the
\* ids collected and the candidates not yet added, no call of the playback
\* thread changes the SmartQueue or the discovery context.
C3_NoInterleaving ==
    [][(/\ \E i \in 1..MaxThreads : threads[i].pc = "enhance"
        /\ last_call'.op \notin {"worker", "tick"})
       => UNCHANGED shared]_vars

----------------------------------------------------------------------------
(* Properties of playback, checked under FairSpec *)

\* the main-tier entries not yet played, and the priority tier
Unplayed ==
    Cardinality({k \in 1..Len(main_queue) : main_queue[k].id \notin played_tracks})
    + Len(priority_queue)

\* the playback thread has just reported a track with an artist while the
\* service runs, fewer than LowWaterMark tracks are left to play and the
\* rate limiter let the call through
LowQueueReported ==
    /\ is_running
    /\ last_call.op = "add_seed_track"
    /\ last_call.opt = "permitted"
    /\ last_call.tracks[1].artist # ""
    /\ Unplayed < LowWaterMark

\* C1: whenever consumption leaves fewer than LowWaterMark tracks to play
\* and the consumed track is reported through add_seed_track, a trigger is
\* eventually on the channel.
C1_TriggerEventually == LowQueueReported ~> (discovery_queue # <<>>)

\* C10: add_seed_track appends every track, with or without an artist, to
\* the seed window, and places a trigger whenever the queue holds fewer than
\* LowWaterMark tracks, the rate limiter permits and the channel has room.
C10_EverySeedTriggers ==
    [][(last_call'.op = "add_seed_track" /\ last_call'.tracks # <<>>)
       => /\ seed_tracks' = SeedAppend(last_call'.tracks[1])
          /\ (/\ get_queue_info.total_tracks < LowWaterMark
              /\ ~RateLimited
              /\ Len(discovery_queue) < TriggerChannelSize)
             => discovery_queue' = Append(discovery_queue, "low_queue")]_vars

\* the playback thread is never inside the waiting put during playback
NoWaitInPlayback == consumer_pc # "put"
\* C11: with the service running, an empty seed window, an empty queue and
\* no add_seed_track call, a trigger is eventually on the channel (placed by
\* the periodic health check), unless a seed or a track arrives first.
C11_HealthCheckTriggers ==
    (is_running /\ seed_tracks = <<>> /\ get_queue_info.total_tracks = 0)
      ~> (\/ discovery_queue # <<>>
          \/ seed_tracks # <<>>
          \/ get_queue_info.total_tracks > 0)
----------------------------------------------------------------------------
(* Properties of shutdown, checked under FairSpecW *)

----------------------------------------------------------------------------
(* SpecA: the settings.  The playback thread inserts a search result,      *)
(* pulls the first track and reports it, and switches the shuffle mode and *)
(* the discovery rate, with known and with unknown arguments.              *)

\* the first pull of a session
PullFirst ==
    /\ played_tracks = {}
    /\ get_next_track

NextA ==
    \/ InsertSearchResult
    \/ PullFirst
    \/ ReportPlayed
    \/ SetShuffleMode
    \/ AdjustDiscoveryRate

SpecA == Init /\ [][NextA]_vars

----------------------------------------------------------------------------
(* SpecH: the listening history.  The playback thread records plays and    *)
(* skips of tracks with and without an artist and with and without an id.  *)

HistoryTracks == {TA, TB, TN, TZ}

\* seconds played before a skip: early and late for a track of 200 s
PlayedTimes == {30, 150}

RecordPlay ==
    \E track \in HistoryTracks :
        /\ PlayCountIn(history, track.id) < MaxCount
        /\ record_play(track)

RecordSkip ==
    \E track \in HistoryTracks, time_played \in PlayedTimes :
        /\ SkipCountIn(history, track.id) < MaxCount
        /\ record_skip(track, time_played)

NextH ==
    \/ RecordPlay
    \/ RecordSkip

SpecH == Init /\ [][NextH]_vars

----------------------------------------------------------------------------
(* SpecP: the cleanup of the depth map.  The service starts with a depth   *)
(* map of about 50 artists, keyed by insertion rank, and the health check  *)
(* runs on it.                                                             *)

\* depth maps of n artists, the i-th inserted having depth (i * k) % m
DepthMaps ==
    {[i \in 1..n |-> (i * k) % m] :
        n \in (PruneCeiling - 2)..(PruneCeiling + MaxExtra),
        k \in 1..(MaxModulus - 1),
        m \in 1..MaxModulus}

InitP ==
    /\ priority_queue = <<>>
    /\ main_queue = <<>>
    /\ current_index = 0
    /\ played_tracks = {}
    /\ shuffle_mode = "smart"
    /\ last_played_track = <<>>
    /\ history = [tracks |-> <<>>, artists |-> <<>>]
    /\ is_running = FALSE
    /\ discovery_thread = 0
    /\ threads = [i \in 1..MaxThreads |-> NoThread]
    /\ discovery_queue = <<>>
    /\ seed_tracks = <<>>
    /\ discovered_artists = {}
    /\ artist_exploration_depth \in DepthMaps
    /\ elapsed = MaxInterval
    /\ min_discovery_interval = 10
    /\ target_queue_size = 30
    /\ discovery_batch_size = 5
    /\ consumer_pc = "idle"
    /\ last_call = Call("init", <<>>, "", None)
    /\ returned = {}
    /\ pulled = <<>>
    /\ since_put = MaxInterval

NextP ==
    \/ check_queue_health
    \/ Tick

SpecP == InitP /\ [][NextP]_vars

----------------------------------------------------------------------------
(* SpecD: deduplication.  _remove_duplicates is called on lists of up to   *)
(* MaxCandidates candidates.                                               *)

MaxCandidates == 3

Candidate(artist, title) ==
    [metadata |-> Some([normalized_artist |-> artist, normalized_title |-> title])]

\* titles "abcdefg", "abcdefgh" (6 of 7 bigrams shared), "xy" and "b";
\* artists "ab", "a:b", "a" and the empty one; a candidate without metadata
Candidates ==
    {Candidate(<<"a", "b">>, <<"a", "b", "c", "d", "e", "f", "g">>),
     Candidate(<<"a", "b">>, <<"a", "b", "c", "d", "e", "f", "g", "h">>),
     Candidate(<<>>, <<"a", "b", "c", "d", "e", "f", "g">>),
     Candidate(<<"a", ":", "b">>, <<"a", "b", "c", "d", "e", "f", "g">>),
     Candidate(<<"a", "b">>, <<"x", "y">>),
     Candidate(<<"a">>, <<"b">>),
     [metadata |-> None]}

CandidateLists ==
    UNION {[1..n -> Candidates] : n \in 1..MaxCandidates}

RemoveDuplicates == \E tracks \in CandidateLists : remove_duplicates(tracks)

NextD ==
    \/ RemoveDuplicates

SpecD == Init /\ [][NextD]_vars

----------------------------------------------------------------------------
(* SpecS: smart pulls.  The playback thread inserts a list of six tracks,  *)
(* so that the top third holds two, pulls in smart mode and clears the     *)
(* played history.                                                         *)

LongList == <<TA, TB, TC, TN, TM, TW>>

InsertLongList ==
    /\ main_queue = <<>>
    /\ add_tracks(LongList, FALSE)

NextS ==
    \/ InsertLongList
    \/ get_next_track
    \/ clear_played_history

SpecS == Init /\ [][NextS]_vars

----------------------------------------------------------------------------
(* SpecC: the choice of strategy.  A round finds a context of one seed,    *)
(* with or without an artist, depths of up to MaxDepth for the artists X   *)
(* and Y, and 2, 9, 10 or 11 discovered artists, and chooses its strategy. *)

ArtistNames == <<"X", "Y", "A3", "A4", "A5", "A6", "A7", "A8", "A9", "A10", "A11">>

DiscoveredSets == {{ArtistNames[i] : i \in 1..n} : n \in {2, 9, 10, 11}}

\* depth maps over subsets of {X, Y}
DepthContexts ==
    UNION {[S -> 0..MaxDepth] : S \in SUBSET {"X", "Y"}}

InitC ==
    /\ priority_queue = <<>>
    /\ main_queue = <<>>
    /\ current_index = 0
    /\ played_tracks = {}
    /\ shuffle_mode = "smart"
    /\ last_played_track = <<>>
    /\ history = [tracks |-> <<>>, artists |-> <<>>]
    /\ is_running = TRUE
    /\ discovery_thread = 0
    /\ threads = [i \in 1..MaxThreads |-> NoThread]
    /\ discovery_queue = <<>>
    /\ seed_tracks \in {<<TA>>, <<TC>>, <<TN>>}
    /\ discovered_artists \in DiscoveredSets
    /\ artist_exploration_depth \in DepthContexts
    /\ elapsed = MaxInterval
    /\ min_discovery_interval = 10
    /\ target_queue_size = 30
    /\ discovery_batch_size = 5
    /\ consumer_pc = "idle"
    /\ last_call = Call("init", <<>>, "", None)
    /\ returned = {}
    /\ pulled = <<>>
    /\ since_put = MaxInterval

NextC ==
    \/ choose_discovery_strategy

SpecC == InitC /\ [][NextC]_vars

----------------------------------------------------------------------------
(* FairSpecM: the running service with a large depth map.  The service is  *)
(* started on a depth map of about 50 artists; no seed is reported, so the *)
(* worker waits on the empty channel, sleeps and tests the flag, which is  *)
(* all its loop does between triggers.                                     *)

IdleWorker(i) ==
    \/ worker_loop(i)
    \/ worker_get(i)
    \/ worker_sleep(i)

NextM ==
    \/ start
    \/ IdleWorker(1)
    \/ Tick

FairSpecM ==
    /\ InitP /\ [][NextM]_vars
    /\ WF_vars(start)
    /\ WF_vars(IdleWorker(1))
    /\ WF_vars(Tick)

----------------------------------------------------------------------------
(* SpecL: concurrent insertion.  The playback thread inserts a search      *)
(* result and later one more track while the worker, whose add_tracks is   *)
(* taken statement by statement, inserts what a round has found.           *)

InsertFirst ==
    /\ main_queue = <<>>
    /\ add_tracks(<<TA, TB>>, FALSE)

InsertMore ==
    /\ main_queue # <<>>
    /\ "m" \notin TrackIds(main_queue)
    /\ add_tracks(<<TM>>, FALSE)

NextL ==
    \/ start
    \/ InsertFirst
    \/ InsertMore
    \/ add_seed_track(TA)
    \/ WorkerL(1)

SpecL == Init /\ [][NextL]_vars

----------------------------------------------------------------------------
(* SpecR: removal and repositioning.  One thread fills both tiers, pulls,  *)
(* switches to sequential order and removes and moves tracks by id.        *)

RemoveTrack == \E track_id \in {"a", "b", "c"} : remove_track(track_id)

\* target positions: before the start, every index, past the end
Positions == -1..MaxMain

MoveTrack ==
    \E track_id \in {"a", "b", "c"}, new_position \in Positions :
        move_track(track_id, new_position)

NextR ==
    \/ AddTracks
    \/ get_next_track
    \/ set_shuffle_mode("sequential")
    \/ RemoveTrack
    \/ MoveTrack

SpecR == Init /\ [][NextR]_vars

----------------------------------------------------------------------------
(* Properties of the discovery rounds and of reset_context, checked under  *)
(* SpecW                                                                   *)

\* C13: when the provider search raises in a round, seeded or bootstrap,
\* the step adds nothing to either tier and leaves the worker in its loop
\* (at the loop test, or in the sleep of the except clause), not ended.
C13_ProviderErrorSwallowed ==
    [][(last_call'.op = "worker" /\ last_call'.opt = "raise")
       => /\ UNCHANGED <<main_queue, priority_queue>>
          /\ \A i \in 1..MaxThreads :
                threads'[i] # threads[i] => threads'[i].pc \in {"loop", "sleep"}]_vars

\* a bootstrap round has raised and the worker sleeps in its except clause
C13_Witness ==
    /\ is_running
    /\ last_call.op = "worker"
    /\ last_call.opt = "raise"
    /\ \E i \in 1..MaxThreads : threads[i].pc = "sleep"

\* how often track t occurs in the sequence s
CountIn(s, t) == Cardinality({k \in 1..Len(s) : s[k] = t})

\* the tracks a step has put into the main tier
InsertedTracks ==
    {t \in Range(main_queue') : CountIn(main_queue', t) > CountIn(main_queue, t)}

\* C14: every track a worker step inserts has quality_score >= 0.4 and the
\* auto_discovered flag, and goes into the main tier: the priority tier is
\* left as it is.
C14_DiscoveredTracksTagged ==
    [][last_call'.op = "worker"
       => /\ priority_queue' = priority_queue
          /\ \A t \in InsertedTracks :
                t.quality_score >= QualityFloor /\ t.auto_discovered]_vars

\* a round has put its candidate d into the main tier, next to a track
\* the playback thread had inserted
C14_Witness ==
    /\ last_call.op = "worker"
    /\ \E k \in 1..Len(main_queue) :
          main_queue[k].auto_discovered /\ main_queue[k].id = "d"
    /\ \E k \in 1..Len(main_queue) : ~main_queue[k].auto_discovered

\* C15: a track a round inserts has an id that no track of either tier and
\* no seed has at the moment of insertion, and that no other track of the
\* same insertion has.
C15_NoDuplicateInserted ==
    [][last_call'.op = "worker"
       => \A t \in InsertedTracks :
             /\ t.id \notin ExistingIds
             /\ Cardinality({k \in 1..Len(main_queue') : main_queue'[k].id = t.id}) = 1]_vars

\* C16: reset_context leaves the seed window, the artist set, the depth map
\* and the channel empty, and leaves the rate limiter open for the next
\* trigger.
C16_ResetRestoresContext ==
    [][last_call'.op = "reset_context"
       => /\ seed_tracks' = <<>>
          /\ discovered_artists' = {}
          /\ artist_exploration_depth' = <<>>
          /\ discovery_queue' = <<>>
          /\ elapsed' >= min_discovery_interval']_vars
----------------------------------------------------------------------------
(* Properties of the settings, checked under SpecA *)

KnownRates == {"conservative", "moderate", "aggressive"}

\* a call of one of the two setters with an argument it does not know
UnknownArgument ==
    \/ last_call'.op = "set_shuffle_mode" /\ last_call'.opt \notin Modes
    \/ last_call'.op = "adjust_discovery_rate" /\ last_call'.opt \notin KnownRates

\* C17: the low-water mark add_seed_track uses is the target_queue_size of
\* the rate level set last: a seed with an artist, reported while the queue
\* holds fewer tracks than that, the limiter is open and the channel has
\* room, puts a trigger on the channel.
C17_RateLevelGovernsTrigger ==
    [][(/\ last_call'.op = "add_seed_track"
        /\ last_call'.opt = "permitted"
        /\ last_call'.tracks # <<>>
        /\ last_call'.tracks[1].artist # ""
        /\ get_queue_info.total_tracks < target_queue_size
        /\ Len(discovery_queue) < TriggerChannelSize)
       => discovery_queue' = Append(discovery_queue, "low_queue")]_vars

\* C18: set_shuffle_mode with an unknown mode and adjust_discovery_rate with
\* an unknown level change no field of the queue and none of the scheduler.
C18_UnknownArgumentNoChange ==
    [][UnknownArgument => UNCHANGED <<qvars, dvars>>]_vars

\* set_shuffle_mode("shuffle") has come back with the queue in sequential
\* mode, a track played and the rate level conservative
C18_Witness ==
    /\ last_call.op = "set_shuffle_mode"
    /\ last_call.opt = "shuffle"
    /\ shuffle_mode = "sequential"
    /\ played_tracks # {}
    /\ current_index > 0
    /\ target_queue_size = 15

\* C19: a call of one of the two setters with an unknown argument gives the
\* caller an outcome other than the None a valid call returns.
C19_UnknownArgumentSignalled ==
    [][UnknownArgument => last_call'.ret # None]_vars
----------------------------------------------------------------------------
(* Properties of removal, checked under SpecR *)

\* what the next sequential pull returns
NextSequential == {o.ret : o \in _get_next_sequential}

\* C20: a remove_track that takes out a main-tier entry other than the one
\* at the cursor moves the cursor back exactly when the entry preceded it,
\* so the next sequential pull returns what it would have returned; a
\* remove_track of an id neither tier holds returns False and changes no
\* field of the queue.
C20_RemoveKeepsCursorTrack ==
    [][last_call'.op = "remove_track"
       => LET track_id == last_call'.opt
              p == FirstWith(priority_queue, track_id)
              m == FirstWith(main_queue, track_id)
          IN  /\ (p = 0 /\ m # 0 /\ m - 1 # current_index)
                 => /\ last_call'.ret = Some(TRUE)
                    /\ main_queue' = Delete(main_queue, m)
                    /\ current_index' =
                         IF m - 1 < current_index
                         THEN current_index - 1 ELSE current_index
                    /\ NextSequential' = NextSequential
              /\ (p = 0 /\ m = 0)
                 => /\ last_call'.ret = Some(FALSE)
                    /\ UNCHANGED <<qvars, dvars>>]_vars

\* in sequential mode, with the cursor inside the main tier, a track pulled
\* before has been removed
C20_Witness ==
    /\ last_call.op = "remove_track"
    /\ last_call.ret = Some(TRUE)
    /\ shuffle_mode = "sequential"
    /\ last_call.opt \in played_tracks
    /\ last_call.opt \notin TrackIds(main_queue) \cup TrackIds(priority_queue)
    /\ 0 < current_index
    /\ current_index < Len(main_queue)
\* the entry the cursor points at, when it points inside the main tier
CursorTrack ==
    IF current_index < Len(main_queue)
    THEN Some(main_queue[current_index + 1]) ELSE None

\* C21: after a move_track that returns True, made with the cursor inside
\* the main tier, the cursor points at the track it pointed at before,
\* also when that track is the one moved.
C21_MoveKeepsCursorTrack ==
    [][(/\ last_call'.op = "move_track"
        /\ last_call'.ret = Some(TRUE)
        /\ current_index < Len(main_queue))
       => CursorTrack' = CursorTrack]_vars
----------------------------------------------------------------------------
(* Properties of session reset and of insertion, checked under SpecQ *)

\* C22: clear_played_history empties played_tracks, sets the cursor to 0
\* and leaves both tiers and the shuffle mode as they are.
C22_ClearResetsSession ==
    [][last_call'.op = "clear_played_history"
       => /\ played_tracks' = {}
          /\ current_index' = 0
          /\ UNCHANGED <<priority_queue, main_queue, shuffle_mode>>]_vars

\* the history was cleared after sequential pulls had moved the cursor on,
\* with both tiers holding tracks
C22_Witness ==
    /\ last_call.op = "clear_played_history"
    /\ shuffle_mode = "sequential"
    /\ main_queue # <<>>
    /\ priority_queue # <<>>
    /\ played_tracks = {}
    /\ current_index = 0
    /\ last_played_track # None

\* C23: add_tracks with priority never reorders the main tier, and
\* add_tracks without priority in a mode other than smart appends the list
\* to the main tier in order.
C23_ReshuffleOnlyOnSmartMainInsert ==
    [][last_call'.op = "add_tracks"
       => /\ last_call'.opt = "priority" => main_queue' = main_queue
          /\ (last_call'.opt = "main" /\ shuffle_mode # "smart")
             => main_queue' = main_queue \o last_call'.tracks]_vars
----------------------------------------------------------------------------
(* Properties of the listening history, checked under SpecH *)

\* C24: from every history, for every track that has an id and an artist
\* the history knows, an early record_skip followed at once by record_play
\* leaves the artist's preference_score below what it was before the skip
\* and above what it was after the skip, and within 0.0..1.0.
C24_SkipThenPlayLowers ==
    \A track \in HistoryTracks, time_played \in PlayedTimes :
        (/\ track.id # ""
         /\ track.artist \in DOMAIN history.artists
         /\ SkippedEarly(track, time_played))
        => LET skipped == record_skip_in(history, track, time_played)
               played  == record_play_in(skipped, track)
           IN  /\ PreferenceIn(played, track.artist) < PreferenceIn(history, track.artist)
               /\ PreferenceIn(played, track.artist) > PreferenceIn(skipped, track.artist)
               /\ PreferenceIn(played, track.artist) \in 0..1000

\* C25: record_skip of a track that has an id raises that track's
\* skip_count by exactly 1, also when the history has no entry for it.
C25_SkipCounted ==
    [][(last_call'.op = "record_skip" /\ last_call'.tracks[1].id # "")
       => SkipCountIn(history', last_call'.tracks[1].id)
            = SkipCountIn(history, last_call'.tracks[1].id) + 1]_vars
----------------------------------------------------------------------------
(* Properties of the depth map's cleanup, checked under SpecP *)

\* C26: a health check that finds more than 50 entries in the depth map
\* leaves exactly 20 of them, with their depths, none of them shallower
\* than an entry it drops; one that finds 50 or fewer leaves the map as it
\* is.
C26_PruneKeepsDeepest ==
    [][last_call'.op = "_check_queue_health"
       => LET old == artist_exploration_depth
              new == artist_exploration_depth'
          IN  IF Cardinality(DOMAIN old) > PruneCeiling
              THEN /\ Cardinality(DOMAIN new) = PruneKeep
                   /\ DOMAIN new \subseteq DOMAIN old
                   /\ \A i \in DOMAIN new : new[i] = old[i]
                   /\ \A i \in DOMAIN new, j \in DOMAIN old \ DOMAIN new :
                         old[i] >= old[j]
              ELSE new = old]_vars

\* a map of more than 50 entries has been cut to 20 entries of two depths,
\* so that entries as deep as a kept one were dropped
C26_Witness ==
    /\ last_call.op = "_check_queue_health"
    /\ Cardinality(DOMAIN artist_exploration_depth) = PruneKeep
    /\ \E i, j \in DOMAIN artist_exploration_depth :
          artist_exploration_depth[i] # artist_exploration_depth[j]
----------------------------------------------------------------------------
(* Properties of deduplication, checked under SpecD *)

\* two candidates the claim counts as near-identical: artist and title
\* both identical, or both similarities above 0.8
NearIdentical(t, u) ==
    \/ /\ t.metadata[1].normalized_title = u.metadata[1].normalized_title
       /\ t.metadata[1].normalized_artist = u.metadata[1].normalized_artist
    \/ /\ Above(_string_similarity(t.metadata[1].normalized_title,
                                   u.metadata[1].normalized_title))
       /\ Above(_string_similarity(t.metadata[1].normalized_artist,
                                   u.metadata[1].normalized_artist))

\* s is t with some entries left out
RECURSIVE IsSubSeq(_, _)
IsSubSeq(s, t) ==
    IF s = <<>> THEN TRUE
    ELSE IF t = <<>> THEN FALSE
    ELSE IF Head(s) = Head(t) THEN IsSubSeq(Tail(s), Tail(t))
    ELSE IsSubSeq(s, Tail(t))

\* C27: the output of _remove_duplicates holds no two near-identical
\* tracks, is shorter than an input that holds two, and keeps the input's
\* order.
C27_NoNearDuplicates ==
    last_call.op = "_remove_duplicates"
    => LET in  == last_call.tracks
           out == last_call.ret[1]
       IN  /\ \A i, j \in 1..Len(out) : i < j => ~NearIdentical(out[i], out[j])
           /\ (\E i, j \in 1..Len(in) :
                  /\ i < j
                  /\ in[i].metadata # None /\ in[j].metadata # None
                  /\ NearIdentical(in[i], in[j]))
              => Len(out) < Len(in)
           /\ IsSubSeq(out, in)
----------------------------------------------------------------------------
(* Properties of the pull, checked under SpecQ *)

\* C28: after every get_next_track that returns a track, from either tier
\* and in every mode, last_played_track is the track returned.
C28_LastPlayedUpdated ==
    [][(last_call'.op = "get_next_track" /\ last_call'.ret # None)
       => last_played_track' = last_call'.ret]_vars

\* C29: every get_next_track that returns a track takes it out of its tier,
\* so that the total_tracks of get_queue_info is one less than before.
C29_PullRemovesTrack ==
    [][(last_call'.op = "get_next_track" /\ last_call'.ret # None)
       => get_queue_info'.total_tracks = get_queue_info.total_tracks - 1]_vars
----------------------------------------------------------------------------
(* Properties of the smart pull, checked under SpecS *)

\* the entries of the main tier not yet played that score above entry i
Better(i) == {j \in Available : SmartScore(main_queue[j]) > SmartScore(main_queue[i])}

\* the entries with fewer than max(1, n div 3) entries scoring above them
TopThird ==
    {i \in Available :
        Cardinality(Better(i)) < Max(1, Cardinality(Available) \div 3)}

\* C30: a smart pull from the main tier returns an entry whose id is not
\* in played_tracks and that has fewer than max(1, n div 3) of the n
\* entries not yet played scoring above it, the score being
\* get_track_score less 0.2 for the artist of the last-played track; when
\* the scores of that top part sum to zero or less, no entry scores above
\* the one returned.
C30_SmartPullFromTopThird ==
    [][(/\ last_call'.op = "get_next_track"
        /\ last_call'.opt = "main"
        /\ shuffle_mode = "smart"
        /\ last_call'.ret # None)
       => \E i \in Available :
             /\ main_queue[i] = last_call'.ret[1]
             /\ i \in TopThird
             /\ SumOver([j \in TopThird |-> SmartScore(main_queue[j])], TopThird) <= 0
                => Better(i) = {}]_vars

\* a smart pull has returned the track that scores 0, the last one left
C30_WitnessFallback ==
    /\ last_call.op = "get_next_track"
    /\ shuffle_mode = "smart"
    /\ last_call.ret = Some(TW)

\* a smart pull has returned the entry that scores second of six, while
\* the one scoring highest is still to be played
C30_Witness ==
    /\ last_call.op = "get_next_track"
    /\ shuffle_mode = "smart"
    /\ Len(main_queue) = 6
    /\ played_tracks = {"m"}
    /\ last_call.ret = Some(TM)
----------------------------------------------------------------------------
(* Properties of the rate limiter's clock, checked under SpecT *)

\* C31: last_discovery_time is the time of the last trigger placed on the
\* channel: whenever the playback thread is outside _trigger_discovery, the
\* time since last_discovery_time is the time since a trigger was last
\* placed, so a trigger dropped on a full channel has not moved it.
C31_IntervalFromAcceptedTrigger ==
    consumer_pc = "idle" => elapsed = since_put
----------------------------------------------------------------------------
(* Properties of the choice of strategy, checked under SpecC *)

\* the exploration depth of the most recent seed's artist
RecentDepth ==
    LET artist == seed_tracks[Len(seed_tracks)].artist
    IN  IF artist \in DOMAIN artist_exploration_depth
        THEN artist_exploration_depth[artist] ELSE 0

----------------------------------------------------------------------------
(* Properties of the exploration depth, checked under SpecW *)

\* the artist's exploration depth in the map depth, 0 without an entry
DepthIn(depth, artist) ==
    IF artist \in DOMAIN depth THEN depth[artist] ELSE 0

\* C33: a discovery round raises the exploration depth of the artist whose
\* name it dispatches as the query by exactly one, also when that artist
\* has several of the recent seeds, and leaves every other depth as it is:
\* no step of the worker raises a depth by more than one.
C33_DepthCountsRounds ==
    [][last_call'.op = "worker"
       => \A artist \in DOMAIN artist_exploration_depth' :
             DepthIn(artist_exploration_depth', artist)
               <= DepthIn(artist_exploration_depth, artist) + 1]_vars
----------------------------------------------------------------------------
(* Properties of the periodic maintenance, checked under FairSpecM *)

\* C34: while the service runs, a depth map of more than 50 entries does
\* not stay that large: in time the maintenance prunes it.
C34_DepthMapPruned ==
    (is_running /\ Cardinality(DOMAIN artist_exploration_depth) > PruneCeiling)
      ~> (Cardinality(DOMAIN artist_exploration_depth) <= PruneCeiling)
----------------------------------------------------------------------------
(* Properties of the track score, checked under SpecH *)

\* what get_track_score adds for the duration and for a recent play
ScoreAdjustment(track) ==
    (IF 120 <= track.duration /\ track.duration <= 360 THEN 100
     ELSE IF track.duration < 60 \/ track.duration > 720 THEN -200
     ELSE 0)
    + (IF track.id # "" /\ track.id \in DOMAIN history.tracks
       THEN IF history.tracks[track.id].hours_since < 2 THEN -300
            ELSE IF history.tracks[track.id].hours_since < 24 THEN -100
            ELSE 0
       ELSE 0)

\* C35: get_track_score is the average of the track's quality score and
\* its artist's preference score, 0.5 for a track without an artist, with
\* the adjustments for duration and recent play added and the result
\* clamped to 0.0..1.0.
C35_ScoreFromAverage ==
    \A track \in HistoryTracks :
        get_track_score(track)
          = Max(0, Min(1000,
                (track.quality_score + PreferenceIn(history, track.artist)) \div 2
                + ScoreAdjustment(track)))
----------------------------------------------------------------------------
(* Properties of a session's pulls, checked under SpecQ *)

\* C36: between two clear_played_history calls get_next_track returns no
\* id twice, whatever pulls, insertions and changes of mode come between.
C36_NoIdTwice ==
    [][(/\ last_call'.op = "get_next_track"
        /\ last_call'.ret # None
        /\ last_call'.ret[1].id # "")
       => last_call'.ret[1].id \notin returned]_vars

----------------------------------------------------------------------------
(* Properties of the reset while a round runs, checked under SpecW *)

\* C37: a worker's step that follows reset_context directly, and so belongs
\* to a round that was under way at the reset, inserts no track and writes
\* nothing into the depth map.
C37_ResetCancelsRound ==
    [][(last_call.op = "reset_context" /\ last_call'.op = "worker")
       => /\ main_queue' = main_queue
          /\ artist_exploration_depth' = artist_exploration_depth]_vars
----------------------------------------------------------------------------
(* Properties of concurrent insertion, checked under SpecL *)

\* C38: no inserted track is lost: no step takes a track out of the main
\* tier, whichever thread's add_tracks reshuffles it.
C38_NoTrackLost ==
    [][TrackIds(main_queue) \subseteq TrackIds(main_queue')]_vars
----------------------------------------------------------------------------
(* Properties of the reshuffle pass, checked under SpecQ *)

\* q1 and q2 hold the same tracks the same number of times
SameTracks(q1, q2) ==
    /\ Len(q1) = Len(q2)
    /\ \A t \in Range(q1) \cup Range(q2) :
          Cardinality({k \in 1..Len(q1) : q1[k] = t}) =
          Cardinality({k \in 1..Len(q2) : q2[k] = t})

\* C39: the reshuffle pass only permutes the main tier: after a
\* set_shuffle_mode or an add_tracks, which end with the pass, the main tier
\* holds the tracks it held (and those appended to it) as often as before,
\* with or without artist, and the played set and the cursor are as they
\* were, as is the priority tier but for what add_tracks appended to it.
C39_ReshufflePermutes ==
    [][/\ last_call'.op = "set_shuffle_mode" =>
            /\ SameTracks(main_queue', main_queue)
            /\ priority_queue' = priority_queue
            /\ played_tracks' = played_tracks
            /\ current_index' = current_index
       /\ last_call'.op = "add_tracks" =>
            /\ SameTracks(main_queue',
                          IF last_call'.opt = "main"
                          THEN main_queue \o last_call'.tracks
                          ELSE main_queue)
            /\ priority_queue' = IF last_call'.opt = "priority"
                                 THEN priority_queue \o last_call'.tracks
                                 ELSE priority_queue
            /\ played_tracks' = played_tracks
            /\ current_index' = current_index]_vars

\* an add_tracks in smart mode has left a main tier of three tracks, with
\* and without artist, that does not end with the tracks just appended
C39_Witness ==
    /\ last_call.op = "add_tracks"
    /\ last_call.opt = "main"
    /\ shuffle_mode = "smart"
    /\ Len(main_queue) = MinShuffleLen
    /\ \E t, u \in Range(main_queue) : t.artist # "" /\ u.artist = ""
    /\ SubSeq(main_queue, Len(main_queue) - Len(last_call.tracks) + 1,
              Len(main_queue)) # last_call.tracks
----------------------------------------------------------------------------
(* Properties of repositioning in sequential order, checked under SpecR *)

\* the ids sequential pulls have still to return: those at the cursor and
\* after it
Pending(q, idx) == {q[k].id : k \in (idx + 1)..Len(q)}

\* C40: in sequential mode move_track and remove_track change the tracks at
\* or after the cursor by the removed track only: none that was still to
\* come falls behind the cursor, none already returned comes after it.
C40_PendingKept ==
    [][(shuffle_mode = "sequential"
        /\ last_call'.op \in {"move_track", "remove_track"}) =>
           LET old == Pending(main_queue, current_index)
               new == Pending(main_queue', current_index')
           IN  /\ new \subseteq old
               /\ old \ new \subseteq {last_call'.opt}
               /\ last_call'.op = "move_track" => new = old]_vars
====
